---- MODULE Spec2Model ----
(***************************************************************************)
(* A model of the ku-polls voting logic: polls/models.py (Question,        *)
(* Choice, Vote and the publication / eligibility policy) and              *)
(* polls/views.py (the vote view).  The Vote table is a sequence of rows   *)
(* whose index is the row's primary key.  The vote view is split at its    *)
(* only read-then-write of shared state: everything up to and including    *)
(* the lookup of the previous vote is one step, the save()/create() is a   *)
(* second one.  The read-only views (index, detail, results) are one step  *)
(* each; page holds what the last of them rendered.                        *)
(***************************************************************************)
EXTENDS Integers, Sequences, FiniteSets, TLC

VARIABLES now, questions, votes, pc, req, clk, sel, prev, resp, hist, page

vars == <<now, questions, votes, pc, req, clk, sel, prev, resp, hist, page>>

\* ------------------------------------------------------------------ bounds

\* The clock runs over 0 .. MaxTime.
MaxTime == 3

\* Concurrent deployments accept requests while the Vote table, with every
\* request in flight completed as an insert, stays within MaxVotes rows.
MaxVotes == 3

\* ------------------------------------------------------------- the data

\* auth.User rows, and the AnonymousUser of a request without a session.
Users == {"alice", "bob"}

Anonymous == "anonymous"

\* A view without the login_required decorator.
is_authenticated_any(user) == TRUE

\* login_required: request.user.is_authenticated.
is_authenticated(user) == user /= Anonymous

\* Worker processes of the deployment, each handling one request at a time.
Workers == {1, 2}

\* DateTimeField(null=True): <<>> is NULL, <<t>> is the timestamp t.
Null == <<>>

\* The Question table of the scenario: question 1 is open on [1, 2],
\* question 2 from 1 on with no end date.
QuestionTable == <<[pub_date |-> 1, end_date |-> <<2>>],
                   [pub_date |-> 1, end_date |-> Null]>>

\* Question ids a URL can carry: those of the table and one that is absent.
QuestionIds == {1, 2, 3}

\* The Choice table: row c holds Choice(pk=c).question_id.
ChoiceTable == <<1, 1, 1, 2>>

\* Choice.question reverse accessor: the pks of question.choice_set.
choice_set(qid) == {c \in DOMAIN ChoiceTable : ChoiceTable[c] = qid}

\* ------------------------------------------------ models.py: the policy

\* is_published confused with was_published_recently.
is_published_recently(q, t) == t - 1 <= q.pub_date /\ q.pub_date <= t

\* Question.is_published with the clock reading t.
is_published(q, t) == t >= q.pub_date

\* can_vote with the bounds of the window excluded.
can_vote_strict(q, t) ==
    IF q.end_date /= Null
    THEN q.pub_date < t /\ t < q.end_date[1]
    ELSE t >= q.pub_date

\* can_vote that forgets the end date.
can_vote_no_end(q, t) == t >= q.pub_date

\* Question.can_vote with the clock reading t.
can_vote(q, t) ==
    IF q.end_date /= Null
    THEN q.pub_date <= t /\ t <= q.end_date[1]
    ELSE t >= q.pub_date

\* ------------------------------------------------------ the Vote table

\* Vote.objects.filter(user=user, choice__question=qid): the matching pks.
VoteRows(tbl, user, qid) ==
    {i \in DOMAIN tbl : tbl[i].user = user /\ ChoiceTable[tbl[i].choice] = qid}

Min(S) == CHOOSE x \in S : \A y \in S : x <= y

\* A lookup by user alone: the user's first Vote on any question.
FirstVote_any_question(tbl, user, qid) ==
    IF {i \in DOMAIN tbl : tbl[i].user = user} = {} THEN 0
    ELSE Min({i \in DOMAIN tbl : tbl[i].user = user})

\* A lookup that never finds the previous vote.
FirstVote_none(tbl, user, qid) == 0

\* QuerySet.first() of an unordered queryset orders by pk: the lowest
\* matching pk, or 0 for None.
FirstVote(tbl, user, qid) ==
    IF VoteRows(tbl, user, qid) = {} THEN 0 ELSE Min(VoteRows(tbl, user, qid))

\* A count of the votes of the choice's question instead of the choice's.
Votes_of_question(tbl, c) ==
    Cardinality({i \in DOMAIN tbl : ChoiceTable[tbl[i].choice] = ChoiceTable[c]})

\* Choice.votes: Vote.objects.filter(choice=self).count().
Votes(tbl, c) == Cardinality({i \in DOMAIN tbl : tbl[i].choice = c})

\* ----------------------------------------------------------- requests

Digits == <<"0", "1", "2", "3", "4", "5", "6", "7", "8", "9">>

DigitValue(ch) == (CHOOSE d \in DOMAIN Digits : Digits[d] = ch) - 1

IsDigit(ch) == \E d \in DOMAIN Digits : Digits[d] = ch

\* The form field as the ORM's IntegerField.get_prep_value reads it:
\* int(value), which raises ValueError on a text that is not a number.
IsNumber(text) == text /= <<>> /\ \A i \in DOMAIN text : IsDigit(text[i])

RECURSIVE ToInt(_)
ToInt(text) ==
    IF text = <<>> THEN 0
    ELSE 10 * ToInt(SubSeq(text, 1, Len(text) - 1)) + DigitValue(text[Len(text)])

\* request.POST: has is whether the form carried a 'choice' field.
NoField == [has |-> FALSE, choice |-> <<>>]

Field(text) == [has |-> TRUE, choice |-> text]

PostData ==
    {NoField, Field(<<>>), Field(<<"1">>), Field(<<"2">>), Field(<<"3">>),
     Field(<<"4">>), Field(<<"9">>), Field(<<"a">>)}

\* A check for the missing field only: `choice_id is None`.
NoChoiceId_missing_only(post) == ~post.has

\* `not request.POST.get('choice')`: None or the empty string.
NoChoiceId(post) == ~post.has \/ post.choice = <<>>

NoReq == [user |-> Anonymous, question_id |-> 0, POST |-> NoField]

\* ----------------------------------------------------------- responses

NoNext == [view |-> "", id |-> 0]

Response(kind, to, arg, message, about, next) ==
    [kind |-> kind, to |-> to, arg |-> arg, message |-> message,
     about |-> about, next |-> next]

NoResp == Response("none", "", 0, "", 0, NoNext)

\* login_required: redirect to login with next=<the vote URL>.
LoginRedirect(qid) ==
    Response("redirect", "login", 0, "", 0, [view |-> "polls:vote", id |-> qid])

\* get_object_or_404 raising Http404.
NotFound == Response("not_found", "", 0, "", 0, NoNext)

\* redirect('polls:index') of a question that cannot be voted on.
ClosedRedirect == Response("redirect", "polls:index", 0, "", 0, NoNext)

NoSelection(qid) ==
    Response("render", "polls/detail.html", qid, "You didn't select a choice.", 0, NoNext)

InvalidChoice(qid) ==
    Response("render", "polls/detail.html", qid, "Invalid choice selected.", 0, NoNext)

\* An exception no handler catches: the framework answers 500.
ServerError == Response("server_error", "", 0, "", 0, NoNext)

\* messages.success(...) and redirect('polls:results', question.id).
Recorded(qid, c) ==
    Response("redirect", "polls:results", qid, "Your vote has been recorded.", c, NoNext)

\* --------------------------------------------------------------- pages

\* What a read-only view rendered: the view, its outcome, the request's user
\* and question id, and the context the template gets.
Page(view, status, user, id, list, previous_choice, counts) ==
    [view |-> view, status |-> status, user |-> user, id |-> id, list |-> list,
     previous_choice |-> previous_choice, counts |-> counts]

NoPage == Page("none", "", Anonymous, 0, <<>>, 0, <<>>)

\* A queryset without the pub_date filter.
Published_all(t) == DOMAIN questions

\* The pks of the Question table with pub_date <= t.
Published(t) == {qid \in DOMAIN questions : questions[qid].pub_date <= t}

\* The sequences that list every element of S once.
Orderings(S) ==
    {s \in [1 .. Cardinality(S) -> S] : \A i, j \in DOMAIN s : s[i] = s[j] => i = j}

\* Question.objects.filter(pub_date__lte=t).order_by('-pub_date'): the rows in
\* any order the database may return them, pub_date never increasing; the
\* order of rows with equal pub_date is not specified.
IndexOrders(t) ==
    {s \in Orderings(Published(t)) :
        \A i, j \in DOMAIN s :
            i < j => questions[s[i]].pub_date >= questions[s[j]].pub_date}

\* Vote.objects.get(...) raising MultipleObjectsReturned, which
\* DetailView.get_context_data does not catch.
DetailError(user, qid) == Page("detail", "server_error", user, qid, <<>>, 0, <<>>)

\* DetailView.get_context_data: previous_choice of the rendered question.
DetailContext(user, qid) ==
    IF ~is_authenticated(user)
    THEN Page("detail", "ok", user, qid, <<>>, 0, <<>>)
    ELSE IF VoteRows(votes, user, qid) = {}
    THEN Page("detail", "ok", user, qid, <<>>, 0, <<>>)
    ELSE IF Cardinality(VoteRows(votes, user, qid)) > 1
    THEN DetailError(user, qid)
    ELSE Page("detail", "ok", user, qid, <<>>,
              votes[FirstVote(votes, user, qid)].choice, <<>>)

\* The pks of question.choice_set in pk order.
ChoiceList(qid) ==
    SelectSeq([c \in DOMAIN ChoiceTable |-> c], LAMBDA c : ChoiceTable[c] = qid)

\* choice.votes of every choice of the question, as the results page shows.
Counts(qid) ==
    [i \in DOMAIN ChoiceList(qid) |->
        [choice |-> ChoiceList(qid)[i], votes |-> Votes(votes, ChoiceList(qid)[i])]]

\* ------------------------------------------------------------- history

\* The last two completed vote recordings, oldest first, each with the Vote
\* table it found.
Remember(h, e) == IF Len(h) < 2 THEN Append(h, e) ELSE <<h[2], e>>

\* ---------------------------------------------------------------- Init

InitAt(t) ==
    /\ now = t
    /\ questions = QuestionTable
    /\ votes = <<>>
    /\ pc = [w \in Workers |-> "idle"]
    /\ req = [w \in Workers |-> NoReq]
    /\ clk = [w \in Workers |-> 0]
    /\ sel = [w \in Workers |-> 0]
    /\ prev = [w \in Workers |-> 0]
    /\ resp = [w \in Workers |-> NoResp]
    /\ hist = <<>>
    /\ page = NoPage

\* The state after construction: the clock at 0, no Vote, no request.
Init == InitAt(0)

\* ------------------------------------------------------------- actions

\* Time passes.
Tick ==
    /\ now < MaxTime
    /\ now' = now + 1
    /\ UNCHANGED <<questions, votes, pc, req, clk, sel, prev, resp, page>>

\* The vote view answers without writing: the response is final.
Answer(w, r) ==
    /\ pc' = [pc EXCEPT ![w] = "done"]
    /\ resp' = [resp EXCEPT ![w] = r]
    /\ clk' = [clk EXCEPT ![w] = 0]
    /\ sel' = [sel EXCEPT ![w] = 0]
    /\ prev' = [prev EXCEPT ![w] = 0]

\* The vote view with the choice field checked before can_vote.
VoteRequest_choice_first(w, user, qid, post) ==
    /\ pc[w] \in {"idle", "done"}
    /\ req' = [req EXCEPT ![w] = [user |-> user, question_id |-> qid, POST |-> post]]
    /\ UNCHANGED <<now, questions, votes, page>>
    /\ IF ~is_authenticated(user)
       THEN Answer(w, LoginRedirect(qid))
       ELSE IF qid \notin DOMAIN questions
       THEN Answer(w, NotFound)
       ELSE IF NoChoiceId(post)
       THEN Answer(w, NoSelection(qid))
       ELSE IF ~can_vote(questions[qid], now)
       THEN Answer(w, ClosedRedirect)
       ELSE IF ~IsNumber(post.choice)
       THEN Answer(w, ServerError)
       ELSE IF ToInt(post.choice) \notin choice_set(qid)
       THEN Answer(w, InvalidChoice(qid))
       ELSE /\ pc' = [pc EXCEPT ![w] = "write"]
            /\ clk' = [clk EXCEPT ![w] = now]
            /\ sel' = [sel EXCEPT ![w] = ToInt(post.choice)]
            /\ prev' = [prev EXCEPT ![w] = FirstVote(votes, user, qid)]
            /\ resp' = [resp EXCEPT ![w] = NoResp]

\* views.vote, from the decorator to the lookup of the previous vote.
VoteRequest(w, user, qid, post) ==
    /\ pc[w] \in {"idle", "done"}
    /\ req' = [req EXCEPT ![w] = [user |-> user, question_id |-> qid, POST |-> post]]
    /\ UNCHANGED <<now, questions, votes, page>>
    /\ IF ~is_authenticated(user)
       THEN Answer(w, LoginRedirect(qid))
       ELSE IF qid \notin DOMAIN questions
       THEN Answer(w, NotFound)
       ELSE IF ~can_vote(questions[qid], now)
       THEN Answer(w, ClosedRedirect)
       ELSE IF NoChoiceId(post)
       THEN Answer(w, NoSelection(qid))
       ELSE IF ~IsNumber(post.choice)
       THEN Answer(w, ServerError)
       ELSE IF ToInt(post.choice) \notin choice_set(qid)
       THEN Answer(w, InvalidChoice(qid))
       ELSE /\ pc' = [pc EXCEPT ![w] = "write"]
            /\ clk' = [clk EXCEPT ![w] = now]
            /\ sel' = [sel EXCEPT ![w] = ToInt(post.choice)]
            /\ prev' = [prev EXCEPT ![w] = FirstVote(votes, user, qid)]
            /\ resp' = [resp EXCEPT ![w] = NoResp]

\* The write of the earlier revision: a fresh Vote row per submission.
VoteWrite_create(w) ==
    /\ pc[w] = "write"
    /\ votes' = Append(votes, [user |-> req[w].user, choice |-> sel[w]])
    /\ pc' = [pc EXCEPT ![w] = "done"]
    /\ resp' = [resp EXCEPT ![w] = Recorded(req[w].question_id, sel[w])]
    /\ UNCHANGED <<now, questions, req, clk, sel, prev, page>>

\* The write without `previous_vote.choice = selected_choice`: the row found
\* is saved as it was read.
VoteWrite_keep_choice(w) ==
    /\ pc[w] = "write"
    /\ votes' = IF prev[w] /= 0
                THEN votes
                ELSE Append(votes, [user |-> req[w].user, choice |-> sel[w]])
    /\ pc' = [pc EXCEPT ![w] = "done"]
    /\ resp' = [resp EXCEPT ![w] = Recorded(req[w].question_id, sel[w])]
    /\ UNCHANGED <<now, questions, req, clk, sel, prev, page>>

\* views.vote, the write: previous_vote.save() or Vote.objects.create().
VoteWrite(w) ==
    /\ pc[w] = "write"
    /\ votes' = IF prev[w] /= 0
                THEN [votes EXCEPT ![prev[w]] =
                         [user |-> req[w].user, choice |-> sel[w]]]
                ELSE Append(votes, [user |-> req[w].user, choice |-> sel[w]])
    /\ pc' = [pc EXCEPT ![w] = "done"]
    /\ resp' = [resp EXCEPT ![w] = Recorded(req[w].question_id, sel[w])]
    /\ UNCHANGED <<now, questions, req, clk, sel, prev, page>>

\* IndexView: the published questions, newest first, each with
\* voting_allowed = question.can_vote().
IndexRequest(user, order) ==
    /\ order \in IndexOrders(now)
    /\ page' = Page("index", "ok", user, 0,
                     [i \in DOMAIN order |->
                         [id |-> order[i],
                          voting_allowed |-> can_vote(questions[order[i]], now)]],
                     0, <<>>)
    /\ UNCHANGED <<now, questions, votes, pc, req, clk, sel, prev, resp>>

\* DetailView: 404 for a question that is absent or not published yet,
\* otherwise the question with the user's previous choice.
DetailRequest(user, qid) ==
    /\ page' = IF qid \notin Published(now)
               THEN Page("detail", "not_found", user, qid, <<>>, 0, <<>>)
               ELSE DetailContext(user, qid)
    /\ UNCHANGED <<now, questions, votes, pc, req, clk, sel, prev, resp>>

\* ResultsView: 404 for an absent question, otherwise the question with the
\* votes of each of its choices.
ResultsRequest(user, qid) ==
    /\ page' = IF qid \notin DOMAIN questions
               THEN Page("results", "not_found", user, qid, <<>>, 0, <<>>)
               ELSE Page("results", "ok", user, qid, <<>>, 0, Counts(qid))
    /\ UNCHANGED <<now, questions, votes, pc, req, clk, sel, prev, resp>>

\* ------------------------------------------------------ specifications

\* The history variable: Observe(w) appends what a write of worker w
\* recorded and the table it found; every other step leaves it alone.
Observe(w) ==
    hist' = Remember(hist, [user |-> req[w].user, choice |-> sel[w],
                            before |-> votes])

\* One worker: requests are handled one after the other, any request a
\* client can send.
Next ==
    \/ Tick /\ UNCHANGED hist
    \/ \E user \in Users \cup {Anonymous}, qid \in QuestionIds, post \in PostData :
          VoteRequest(1, user, qid, post) /\ UNCHANGED hist
    \/ VoteWrite(1) /\ UNCHANGED hist

Spec == Init /\ [][Next]_vars

\* One worker, authenticated users submitting a choice of a question, with
\* the last two recordings remembered.
PairNext ==
    \/ Tick /\ UNCHANGED hist
    \/ \E user \in Users, c \in DOMAIN ChoiceTable :
          VoteRequest(1, user, ChoiceTable[c], Field(<<Digits[c + 1]>>)) /\ UNCHANGED hist
    \/ VoteWrite(1) /\ Observe(1)

SpecPair == Init /\ [][PairNext]_vars

\* Requests in flight, each of which may still insert a row.
InFlight == Cardinality({w \in Workers : pc[w] = "write"})

\* Several workers: the steps of different requests interleave.
ConcNext ==
    \/ \E w \in Workers, user \in Users, c \in DOMAIN ChoiceTable :
          /\ Len(votes) + InFlight < MaxVotes
          /\ VoteRequest(w, user, ChoiceTable[c], Field(<<Digits[c + 1]>>))
          /\ UNCHANGED hist
    \/ \E w \in Workers : VoteWrite(w) /\ Observe(w)
    \/ \E qid \in DOMAIN QuestionTable :
          DetailRequest("alice", qid) /\ UNCHANGED hist

\* Both questions are open when the requests arrive.
InitOpen == InitAt(1)

SpecConc == InitOpen /\ [][ConcNext]_vars

\* Any publish window: the dates of every question are drawn from the clock's
\* range, end dates before the publication date included.
Dates == {[pub_date |-> p, end_date |-> e] :
             p \in 0 .. MaxTime, e \in {Null} \cup {<<t>> : t \in 0 .. MaxTime}}

InitDates ==
    /\ now = 0
    /\ questions \in [DOMAIN QuestionTable -> Dates]
    /\ votes = <<>>
    /\ pc = [w \in Workers |-> "idle"]
    /\ req = [w \in Workers |-> NoReq]
    /\ clk = [w \in Workers |-> 0]
    /\ sel = [w \in Workers |-> 0]
    /\ prev = [w \in Workers |-> 0]
    /\ resp = [w \in Workers |-> NoResp]
    /\ hist = <<>>
    /\ page = NoPage

DatesNext ==
    \/ Tick /\ UNCHANGED hist
    \/ \E qid \in DOMAIN QuestionTable, post \in {NoField, Field(<<"1">>)} :
          VoteRequest(1, "alice", qid, post) /\ UNCHANGED hist
    \/ VoteWrite(1) /\ UNCHANGED hist
    \/ \E order \in Orderings(DOMAIN QuestionTable) \cup Orderings({1}) \cup
                     Orderings({2}) \cup Orderings({}) :
          IndexRequest(Anonymous, order) /\ UNCHANGED hist
    \/ \E user \in {"alice", Anonymous}, qid \in QuestionIds :
          DetailRequest(user, qid) /\ UNCHANGED hist

SpecDates == InitDates /\ [][DatesNext]_vars

\* One worker, authenticated users submitting a choice of a question, and
\* readers of the results page.
ResultsNext ==
    \/ Tick /\ UNCHANGED hist
    \/ \E user \in Users, c \in DOMAIN ChoiceTable :
          VoteRequest(1, user, ChoiceTable[c], Field(<<Digits[c + 1]>>)) /\ UNCHANGED hist
    \/ VoteWrite(1) /\ UNCHANGED hist
    \/ \E qid \in QuestionIds : ResultsRequest(Anonymous, qid) /\ UNCHANGED hist

SpecResults == Init /\ [][ResultsNext]_vars

\* -------------------------------------------------------------- claims

\* Worker w took a request in this step.
Received(w) ==
    /\ pc[w] \in {"idle", "done"}
    /\ <<pc[w], req[w], resp[w]>> /= <<pc'[w], req'[w], resp'[w]>>

\* Worker w did its save() or create() in this step.
Wrote(w) == pc[w] = "write" /\ pc'[w] = "done"

\* The publish window as the specification states it.
InWindow(q, t) ==
    /\ q.pub_date <= t
    /\ q.end_date = Null \/ t <= q.end_date[1]

Identities == Users \cup {Anonymous}

AtMostOneRow(tbl) ==
    \A user \in Identities, qid \in DOMAIN questions :
        Cardinality(VoteRows(tbl, user, qid)) <= 1

\* C1: with requests handled one after the other, every step leaves at most
\* one Vote row per (user, question), and the write of a user who already
\* has a Vote on the question adds no row and repoints the existing one.
C1_OneVotePerPair ==
    [][/\ AtMostOneRow(votes')
       /\ \A w \in Workers :
             (Wrote(w) /\ VoteRows(votes, req[w].user, req[w].question_id) /= {})
             => /\ Len(votes') = Len(votes)
                /\ VoteRows(votes', req[w].user, req[w].question_id)
                     = VoteRows(votes, req[w].user, req[w].question_id)
                /\ \A i \in VoteRows(votes', req[w].user, req[w].question_id) :
                      votes'[i].choice = sel[w]]_vars

\* C1 witness: a user who had a Vote on the question has voted again, with
\* other rows in the table.
C1_Revoted ==
    /\ pc[1] = "done"
    /\ resp[1].to = "polls:results"
    /\ prev[1] /= 0
    /\ Len(votes) >= 3

\* C2: submissions of one identity for one question, interleaved in any
\* order, never leave two Vote rows for that (identity, question).
C2_NoDuplicateUnderConcurrency ==
    \A user \in Users, qid \in DOMAIN questions :
        Cardinality(VoteRows(votes, user, qid)) < 2

\* Both workers have completed a recording for the same identity and
\* question with different choices.
BothRecorded ==
    /\ \A w \in Workers : pc[w] = "done" /\ resp[w].to = "polls:results"
    /\ req[1].user = req[2].user
    /\ req[1].question_id = req[2].question_id
    /\ sel[1] /= sel[2]

\* C3: once two submissions of one identity for one question with different
\* choices have both completed, exactly one Vote row exists for the pair and
\* it points at the choice written last.
C3_LastWriterWins ==
    BothRecorded
    => /\ Cardinality(VoteRows(votes, req[1].user, req[1].question_id)) = 1
       /\ \A i \in VoteRows(votes, req[1].user, req[1].question_id) :
             votes[i].choice = hist[Len(hist)].choice

\* The last two recordings are of one identity on one question.
PairOnQuestion ==
    /\ Len(hist) = 2
    /\ hist[1].user = hist[2].user
    /\ ChoiceTable[hist[1].choice] = ChoiceTable[hist[2].choice]

\* The rows of the identity of the last recording on its question, in tbl.
PairRows(tbl) == VoteRows(tbl, hist[2].user, ChoiceTable[hist[2].choice])

\* C4: after an identity has submitted the same valid choice c twice in a
\* row, exactly one Vote row of the identity on the question exists, it
\* points at c, and the table is the one the first submission left.
C4_Idempotent ==
    (PairOnQuestion /\ hist[1].choice = hist[2].choice)
    => /\ Cardinality(PairRows(votes)) = 1
       /\ \A i \in PairRows(votes) : votes[i].choice = hist[2].choice
       /\ votes = hist[2].before

\* C4 witness: the same choice was recorded twice in a row, the first time
\* as the identity's first vote on the question.
C4_SubmittedTwice ==
    /\ PairOnQuestion
    /\ hist[1].choice = hist[2].choice
    /\ PairRows(hist[1].before) = {}
    /\ pc[1] = "done"

\* The outcome the vote-switching property states, A the first choice
\* recorded and B the second.
Switched ==
    /\ Cardinality(PairRows(votes)) = 1
    /\ \A i \in PairRows(votes) : votes[i].choice = hist[2].choice
    /\ Votes(votes, hist[1].choice) = Votes(hist[1].before, hist[1].choice)
    /\ Votes(votes, hist[2].choice) = Votes(hist[1].before, hist[2].choice) + 1

\* C5 as stated: after an identity voted A and then a different B on one
\* question, one row remains and points at B, votes(A) is what it was before
\* the vote for A and votes(B) is one more than it was then.
C5_SwitchAsStated ==
    (PairOnQuestion /\ hist[1].choice /= hist[2].choice) => Switched

\* Before the vote for A the identity's Vote on the question, if any, pointed
\* at neither A nor B.
FreshForBoth ==
    \A i \in PairRows(hist[1].before) :
        hist[1].before[i].choice \notin {hist[1].choice, hist[2].choice}

\* C5 amended: the same, for an identity whose Vote on the question before
\* the vote for A, if it had one, pointed at neither A nor B.
C5_SwitchFromOther ==
    (PairOnQuestion /\ hist[1].choice /= hist[2].choice /\ FreshForBoth) => Switched

\* C5 witness: an identity whose Vote pointed at a third choice voted A and
\* then B, while another identity's Vote points at B.
C5_SwitchedFromThird ==
    /\ PairOnQuestion
    /\ hist[1].choice /= hist[2].choice
    /\ PairRows(hist[1].before) /= {}
    /\ FreshForBoth
    /\ Votes(votes, hist[2].choice) = 2
    /\ pc[1] = "done"

\* C6: a submission that reads the clock outside the question's publish
\* window is answered without reaching the write, and every change of the
\* Vote table is the write of a submission that read the clock inside it.
C6_WritesInsideWindow ==
    [][/\ \A w \in Workers :
             (/\ Received(w)
              /\ is_authenticated(req'[w].user)
              /\ req'[w].question_id \in DOMAIN questions
              /\ ~InWindow(questions[req'[w].question_id], now))
             => votes' = votes /\ pc'[w] = "done"
       /\ votes' /= votes
          => \E w \in Workers :
                /\ Wrote(w)
                /\ InWindow(questions[req[w].question_id], clk[w])]_vars

\* C6 witness: with votes recorded, a submission on the question whose end
\* date has passed was answered.
C6_ClosedSubmission ==
    /\ pc[1] = "done"
    /\ is_authenticated(req[1].user)
    /\ req[1].question_id = 1
    /\ req[1].POST = Field(<<"2">>)
    /\ resp[1] = ClosedRedirect
    /\ now > questions[1].end_date[1]
    /\ VoteRows(votes, req[1].user, 1) /= {}

\* C7: at every time can_vote is true exactly inside the closed window
\* [pub_date, end_date], or from pub_date on without an end date; it is false
\* right before pub_date and right after end_date.
C7_CanVoteWindow ==
    \A qid \in DOMAIN questions :
        LET q == questions[qid] IN
        /\ q.end_date /= Null
           => (can_vote(q, now) <=> (q.pub_date <= now /\ now <= q.end_date[1]))
        /\ q.end_date = Null => (can_vote(q, now) <=> now >= q.pub_date)
        /\ ~can_vote(q, q.pub_date - 1)
        /\ q.end_date /= Null => ~can_vote(q, q.end_date[1] + 1)
        /\ (q.end_date /= Null /\ q.pub_date <= q.end_date[1])
           => can_vote(q, q.pub_date) /\ can_vote(q, q.end_date[1])

\* C7 witness: the vote view has let a submission through at the end date of
\* one question and the clock is past the end date of the other.
C7_AtTheEnd ==
    /\ questions[1].end_date = <<now>>
    /\ questions[1].pub_date < now
    /\ pc[1] = "write"
    /\ req[1].question_id = 1
    /\ questions[2].end_date /= Null
    /\ questions[2].end_date[1] < now
    /\ questions[2].pub_date <= questions[2].end_date[1]

\* C8: an unauthenticated submission, whatever its question id and choice,
\* is answered with the redirect to login carrying next=<its vote URL>,
\* never reaches the write and leaves the Vote table as it is.
C8_AnonymousRedirected ==
    [][\A w \in Workers :
          (Received(w) /\ req'[w].user \notin Users)
          => /\ resp'[w].kind = "redirect"
             /\ resp'[w].to = "login"
             /\ resp'[w].next = [view |-> "polls:vote", id |-> req'[w].question_id]
             /\ pc'[w] = "done"
             /\ votes' = votes
             /\ \A i \in DOMAIN votes' : votes'[i].user \in Users]_vars

\* C8 witness: an unauthenticated submission of a valid choice on an open
\* question has been answered.
C8_AnonymousAnswered ==
    /\ pc[1] = "done"
    /\ req[1] = [user |-> Anonymous, question_id |-> 2, POST |-> Field(<<"4">>)]
    /\ resp[1].kind /= "none"
    /\ now = 2
    /\ votes /= <<>>

\* C9: an authenticated submission on a votable question with no choice
\* field, or an empty one, renders the detail page with the no-selection
\* message and leaves the Vote table as it is.
C9_NoSelectionKeepsVotes ==
    [][\A w \in Workers :
          (/\ Received(w)
           /\ req'[w].user \in Users
           /\ req'[w].question_id \in DOMAIN questions
           /\ InWindow(questions[req'[w].question_id], now)
           /\ ~req'[w].POST.has \/ req'[w].POST.choice = <<>>)
          => /\ resp'[w].kind = "render"
             /\ resp'[w].to = "polls/detail.html"
             /\ resp'[w].arg = req'[w].question_id
             /\ resp'[w].message = "You didn't select a choice."
             /\ pc'[w] = "done"
             /\ votes' = votes]_vars

\* C9 witness: an identity with a Vote on the question submitted an empty
\* choice field and was answered.
C9_EmptyAfterVote ==
    /\ pc[1] = "done"
    /\ req[1].user \in Users
    /\ req[1].question_id = 1
    /\ req[1].POST = Field(<<>>)
    /\ resp[1].kind = "render"
    /\ VoteRows(votes, req[1].user, 1) /= {}

\* The choice id of the form names a Choice of question qid.
NamesChoiceOf(post, qid) ==
    /\ IsNumber(post.choice)
    /\ ToInt(post.choice) \in choice_set(qid)

\* C10: an authenticated submission on a votable question whose choice id
\* names no Choice of that question renders the detail page with the
\* invalid-choice message, never a server error, and leaves the Vote table
\* as it is; no Vote row of the submission points at a choice of another
\* question.
C10_InvalidChoiceHandled ==
    [][\A w \in Workers :
          /\ (/\ Received(w)
               /\ req'[w].user \in Users
               /\ req'[w].question_id \in DOMAIN questions
               /\ InWindow(questions[req'[w].question_id], now)
               /\ req'[w].POST.has /\ req'[w].POST.choice /= <<>>
               /\ ~NamesChoiceOf(req'[w].POST, req'[w].question_id))
              => /\ resp'[w].kind = "render"
                 /\ resp'[w].to = "polls/detail.html"
                 /\ resp'[w].message = "Invalid choice selected."
                 /\ pc'[w] = "done"
                 /\ votes' = votes
          /\ Wrote(w) => ChoiceTable[sel[w]] = req[w].question_id]_vars

\* An authenticated submission on a question of the table was taken by
\* worker w in this step.
Submitted(w) ==
    /\ Received(w)
    /\ req'[w].user \in Users
    /\ req'[w].question_id \in DOMAIN questions

\* A read-only view rendered in this step.
Rendered(view) == page' /= page /\ page'.view = view

\* The response renders the detail page with an error message other than
\* those of m1 and m2.
DetailWithOwnMessage(r, m1, m2) ==
    /\ r.kind = "render"
    /\ r.to = "polls/detail.html"
    /\ r.message \notin {"", m1, m2}

NoSelectionText == "You didn't select a choice."

InvalidChoiceText == "Invalid choice selected."

\* C11: each failing submission of an authenticated identity (voting closed,
\* no selection, a choice id naming no choice of the question) renders the
\* detail page with an error message of its own kind; a numeric choice id
\* stands for the invalid choice here.
C11_FailuresRenderDetail ==
    [][\A w \in Workers :
          Submitted(w)
          => LET q == questions[req'[w].question_id]
                 post == req'[w].POST
             IN  /\ ~InWindow(q, now)
                    => DetailWithOwnMessage(resp'[w], NoSelectionText, InvalidChoiceText)
                 /\ (InWindow(q, now) /\ (~post.has \/ post.choice = <<>>))
                    => /\ DetailWithOwnMessage(resp'[w], "", InvalidChoiceText)
                       /\ resp'[w].message = NoSelectionText
                 /\ (/\ InWindow(q, now)
                     /\ post.has
                     /\ IsNumber(post.choice)
                     /\ ToInt(post.choice) \notin choice_set(req'[w].question_id))
                    => /\ DetailWithOwnMessage(resp'[w], NoSelectionText, "")
                       /\ resp'[w].message = InvalidChoiceText]_vars

\* The ids an index page lists, in its order.
ListedIds(pg) == [i \in DOMAIN pg.list |-> pg.list[i].id]

\* C12: the index lists exactly the questions with pub_date <= now, by
\* pub_date descending, questions of equal pub_date by ascending id.
C12_IndexOrder ==
    [][Rendered("index")
       => LET ids == ListedIds(page')
          IN  /\ {ids[i] : i \in DOMAIN ids}
                   = {qid \in DOMAIN questions : questions[qid].pub_date <= now}
              /\ \A i, j \in DOMAIN ids :
                    i < j
                    => \/ questions[ids[i]].pub_date > questions[ids[j]].pub_date
                       \/ /\ questions[ids[i]].pub_date = questions[ids[j]].pub_date
                          /\ ids[i] < ids[j]]_vars

\* C13: while pub_date is later than now the detail view of the question
\* answers not found, the index does not list it and a submission on it
\* never reaches the write; from pub_date on the detail view renders it.
C13_FutureQuestionHidden ==
    [][/\ Rendered("detail") /\ page'.id \in DOMAIN questions
          => IF questions[page'.id].pub_date > now
             THEN page'.status = "not_found"
             ELSE page'.status = "ok"
       /\ Rendered("index")
          => \A i \in DOMAIN page'.list : questions[page'.list[i].id].pub_date <= now
       /\ \A w \in Workers :
             /\ (Submitted(w) /\ questions[req'[w].question_id].pub_date > now)
                => pc'[w] = "done" /\ votes' = votes
             /\ Wrote(w) => questions[req[w].question_id].pub_date <= clk[w]]_vars

\* C13 witness: with a Vote recorded on another question, the detail view of
\* a question not published yet has answered not found.
C13_FutureDetail ==
    /\ page.view = "detail"
    /\ page.status = "not_found"
    /\ page.id \in DOMAIN questions
    /\ questions[page.id].pub_date > now
    /\ votes /= <<>>

RECURSIVE SumVotes(_)
SumVotes(counts) ==
    IF counts = <<>> THEN 0 ELSE counts[1].votes + SumVotes(Tail(counts))

\* C14: the results page shows, for every choice of the question, the number
\* of Vote rows referencing that choice, and these add up to the number of
\* Vote rows on the question.
C14_VotesAreCounted ==
    [][(Rendered("results") /\ page'.status = "ok")
       => /\ {page'.counts[i].choice : i \in DOMAIN page'.counts}
               = {c \in DOMAIN ChoiceTable : ChoiceTable[c] = page'.id}
          /\ \A i \in DOMAIN page'.counts :
                page'.counts[i].votes
                  = Cardinality({r \in DOMAIN votes :
                                    votes[r].choice = page'.counts[i].choice})
          /\ SumVotes(page'.counts)
               = Cardinality({r \in DOMAIN votes :
                                 ChoiceTable[votes[r].choice] = page'.id})]_vars

\* C14 witness: the results of question 1 are shown after votes for two of
\* its choices, the last of them a repointed Vote.
C14_ResultsAfterSwitch ==
    /\ page.view = "results"
    /\ page.id = 1
    /\ SumVotes(page.counts) = 2
    /\ \E i \in DOMAIN page.counts : page.counts[i].votes = 1
    /\ pc[1] = "done"
    /\ prev[1] /= 0
    /\ page.counts = Counts(1)

\* C15: is_published is true exactly when now >= pub_date, and, pub_date
\* unchanged, stays true once it is true.
C15_PublishedMonotone ==
    [][\A qid \in DOMAIN questions :
          /\ is_published(questions[qid], now) <=> now >= questions[qid].pub_date
          /\ is_published(questions'[qid], now')
               <=> now' >= questions'[qid].pub_date
          /\ (is_published(questions[qid], now)
               /\ questions'[qid].pub_date = questions[qid].pub_date)
              => is_published(questions'[qid], now')]_vars

\* C15 witness: the clock is past the publication date of question 1 and
\* question 2 is not published yet.
C15_PublishedEarlier ==
    /\ questions[1].pub_date > 0
    /\ now > questions[1].pub_date
    /\ now < questions[2].pub_date
    /\ page.view = "index"

\* C16: the detail view of a published question requested by an
\* authenticated identity renders the question with the choice of the
\* identity's Vote on it, or none, never a server error; an unauthenticated
\* caller gets no prior choice.
C16_DetailShowsPriorChoice ==
    [][(Rendered("detail")
        /\ page'.id \in DOMAIN questions
        /\ questions[page'.id].pub_date <= now)
       => /\ page'.status = "ok"
          /\ IF page'.user \in Users
                 /\ \E r \in DOMAIN votes :
                       /\ votes[r].user = page'.user
                       /\ ChoiceTable[votes[r].choice] = page'.id
             THEN \E r \in DOMAIN votes :
                     /\ votes[r].user = page'.user
                     /\ ChoiceTable[votes[r].choice] = page'.id
                     /\ votes[r].choice = page'.previous_choice
             ELSE page'.previous_choice = 0]_vars

\* C17: the vote view reports the first precondition that fails, in the
\* order question exists, can_vote, choice present, choice of the question:
\* not found for an absent question and the voting-closed redirect for a
\* question outside its window, whatever the choice field; the later
\* outcomes only for a question that exists and can be voted on, the
\* no-selection page before the check of the choice id. A choice id naming
\* no choice ends the request at that last check: with the invalid-choice
\* page, or, for an id that is not a number, with the uncaught error of C10.
C17_PreconditionOrder ==
    [][\A w \in Workers :
          (Received(w) /\ req'[w].user \in Users)
          => LET qid == req'[w].question_id
                 post == req'[w].POST
             IN  IF qid \notin DOMAIN questions
                 THEN resp'[w].kind = "not_found"
                 ELSE IF ~InWindow(questions[qid], now)
                 THEN resp'[w].kind = "redirect" /\ resp'[w].to = "polls:index"
                 ELSE IF ~post.has \/ post.choice = <<>>
                 THEN resp'[w].message = NoSelectionText
                 ELSE IF ~NamesChoiceOf(post, qid)
                 THEN /\ pc'[w] = "done"
                      /\ resp'[w].kind \in {"render", "server_error"}
                      /\ resp'[w].kind = "render"
                         => resp'[w].message = InvalidChoiceText
                      /\ IsNumber(post.choice) => resp'[w].kind = "render"
                 ELSE pc'[w] = "write"]_vars

\* C17 witness: with a Vote recorded earlier, a submission without a choice
\* field on question 1 after its end date has been answered with the
\* voting-closed redirect, not with the no-selection page.
C17_ClosedWithoutChoice ==
    /\ pc[1] = "done"
    /\ req[1] = [user |-> "bob", question_id |-> 1, POST |-> NoField]
    /\ resp[1] = ClosedRedirect
    /\ now > questions[1].end_date[1]
    /\ votes /= <<>>

\* C18: the write of identity u on question q leaves every Vote row of
\* another identity and every Vote row of u on another question as it was,
\* keeps every row with its identity and question, adds at most one row,
\* a Vote of u on q, and changes no Question.
C18_WriteFrame ==
    [][\A w \in Workers :
          Wrote(w)
          => /\ Len(votes) <= Len(votes') /\ Len(votes') <= Len(votes) + 1
             /\ \A i \in DOMAIN votes :
                   /\ votes'[i].user = votes[i].user
                   /\ ChoiceTable[votes'[i].choice] = ChoiceTable[votes[i].choice]
                   /\ (\/ votes[i].user /= req[w].user
                       \/ ChoiceTable[votes[i].choice] /= req[w].question_id)
                      => votes'[i] = votes[i]
             /\ \A i \in DOMAIN votes' \ DOMAIN votes :
                   /\ votes'[i].user = req[w].user
                   /\ ChoiceTable[votes'[i].choice] = req[w].question_id
             /\ questions' = questions]_vars

\* C18 witness: with a Vote of every identity on every question, an identity
\* has repointed its Vote.
C18_RepointedAmongAll ==
    /\ pc[1] = "done"
    /\ resp[1].to = "polls:results"
    /\ prev[1] /= 0
    /\ \A user \in Users, qid \in DOMAIN questions :
          \E r \in DOMAIN votes :
              votes[r].user = user /\ ChoiceTable[votes[r].choice] = qid

====
